---- MODULE Spec2Model ----
(***************************************************************************)
(* Model of pkg/scalers/scalersconfig/typed_config.go: the `keda` field    *)
(* tag parser (paramsFromTag), the parameter lookup (configParamValue),    *)
(* the per-field policy (setValue), the string-to-field conversion         *)
(* (setConfigValueHelper) and the loop of TypedConfig.                     *)
(*                                                                         *)
(* Go strings are sequences of one-character strings, except that the      *)
(* words of the tag language and parameter names are kept as one element   *)
(* each (they are never split inside).  Split and TrimSpace work on these  *)
(* sequences as strings.Split and strings.TrimSpace work on Go strings.    *)
(***************************************************************************)
EXTENDS Integers, Sequences, FiniteSets, TLC

VARIABLES
    sc,       \* the ScalerConfig: TriggerMetadata, ResolvedEnv, AuthParams
    isPtr,    \* whether the argument of TypedConfig is a pointer
    fields,   \* the fields of the target structure, in declaration order
    i,        \* TypedConfig's loop index (1-based)
    errors,   \* TypedConfig's slice of collected errors
    last,     \* locals of the last loop iteration that ran
    ret,      \* what TypedConfig returned
    pc        \* "start", "loop", "done"

vars == <<sc, isPtr, fields, i, errors, last, ret, pc>>

-----------------------------------------------------------------------------
(* Bounds of the model *)

MaxOrderLen == 2
MaxLen == 4
MaxFields == 2

-----------------------------------------------------------------------------
(* Strings *)

RECURSIVE IndexOf(_, _, _)
\* first position >= from at which s holds sep, 0 if none
IndexOf(s, sep, from) ==
    IF from > Len(s) THEN 0
    ELSE IF s[from] = sep THEN from
    ELSE IndexOf(s, sep, from + 1)

RECURSIVE Split(_, _)
\* strings.Split(s, sep) for a one-character sep: Split("", sep) is <<"">>
Split(s, sep) ==
    LET k == IndexOf(s, sep, 1) IN
    IF k = 0 THEN <<s>>
    ELSE <<SubSeq(s, 1, k - 1)>> \o Split(SubSeq(s, k + 1, Len(s)), sep)

RECURSIVE TrimLeft(_)
TrimLeft(s) ==
    IF s # <<>> /\ Head(s) = " " THEN TrimLeft(Tail(s)) ELSE s

RECURSIVE TrimRight(_)
TrimRight(s) ==
    IF s # <<>> /\ s[Len(s)] = " " THEN TrimRight(SubSeq(s, 1, Len(s) - 1)) ELSE s

TrimSpace(s) == TrimRight(TrimLeft(s))

\* m[key] of a Go map[string]string: the value and the "ok" flag
Lookup(m, key) ==
    IF key \in DOMAIN m THEN [param |-> m[key], ok |-> TRUE]
    ELSE [param |-> <<>>, ok |-> FALSE]

-----------------------------------------------------------------------------
(* Constants of the tag language *)

TriggerMetadata == <<"triggerMetadata">>
ResolvedEnv == <<"resolvedEnv">>
AuthParams == <<"authParams">>

tagSeparator == ","
tagKeySeparator == "="
tagValueSeparator == ";"

elemSeparator == ","
elemKeyValSeparator == "="

optionalTag == <<"optional">>
deprecatedTag == <<"deprecated">>
defaultTag == <<"default">>
parsingOrderTag == <<"parsingOrder">>
nameTag == <<"name">>

NoError == [kind |-> "nil"]

IsErr(e) == e.kind # "nil"

-----------------------------------------------------------------------------
(* Params *)

IsDeprecatedSentinelOnly(p) == p.Deprecated = deprecatedTag

IsDeprecated(p) == p.Deprecated # <<>>

DeprecatedMessage(p) ==
    IF p.Deprecated = deprecatedTag THEN <<>>
    ELSE <<":", " ">> \o p.Deprecated

\* the parsingOrder clause: every ';'-separated token, trimmed, appended
AppendOrder(order, value) ==
    LET parsingOrder == Split(value, tagValueSeparator) IN
    order \o [k \in 1..Len(parsingOrder) |-> TrimSpace(parsingOrder[k])]

\* one clause of the tag applied to params; err is set on an unknown key
tagClause(params, ts, tag) ==
    LET tsplit == Split(ts, tagKeySeparator)
        key == TrimSpace(tsplit[1])
        n == Len(tsplit)
    IN
    IF key = optionalTag THEN
        [params |-> [params EXCEPT !.Optional =
                        IF n = 1 THEN TRUE ELSE TrimSpace(tsplit[2]) = <<"true">>],
         err |-> NoError]
    ELSE IF key = parsingOrderTag THEN
        [params |-> IF n > 1
                    THEN [params EXCEPT !.ParsingOrder = AppendOrder(@, tsplit[2])]
                    ELSE params,
         err |-> NoError]
    ELSE IF key = nameTag THEN
        [params |-> IF n > 1 THEN [params EXCEPT !.Name = TrimSpace(tsplit[2])]
                    ELSE params,
         err |-> NoError]
    ELSE IF key = deprecatedTag THEN
        [params |-> [params EXCEPT !.Deprecated =
                        IF n = 1 THEN deprecatedTag ELSE TrimSpace(tsplit[2])],
         err |-> NoError]
    ELSE IF key = defaultTag THEN
        [params |-> IF n > 1 THEN [params EXCEPT !.Default = TrimSpace(tsplit[2])]
                    ELSE params,
         err |-> NoError]
    ELSE [params |-> params, err |-> [kind |-> "unknownTag", key |-> key, tag |-> tag]]

RECURSIVE tagLoop(_, _, _, _)
tagLoop(params, tagSplit, k, tag) ==
    IF k > Len(tagSplit) THEN [params |-> params, err |-> NoError]
    ELSE LET r == tagClause(params, tagSplit[k], tag) IN
         IF IsErr(r.err) THEN r
         ELSE tagLoop(r.params, tagSplit, k + 1, tag)

paramsFromTag(tag, fieldName) ==
    tagLoop([Name |-> fieldName, Optional |-> FALSE, ParsingOrder |-> <<>>,
             Default |-> <<>>, Deprecated |-> <<>>],
            Split(tag, tagSeparator), 1, tag)

-----------------------------------------------------------------------------
(* configParamValue *)

\* the key of the switch: Name, or for resolvedEnv the value stored in
\* TriggerMetadata under Name+"FromEnv" ("" when that key is absent)
sourceKeyByName(s, po, name) == name

sourceKey(s, po, name) ==
    IF po = ResolvedEnv
    THEN Lookup(s.TriggerMetadata, name \o <<"FromEnv">>).param
    ELSE name

\* the map of the switch; the default case is TriggerMetadata
sourceMapStrict(s, po) ==
    IF po = TriggerMetadata THEN s.TriggerMetadata
    ELSE IF po = AuthParams THEN s.AuthParams
    ELSE IF po = ResolvedEnv THEN s.ResolvedEnv
    ELSE <<>>

sourceMap(s, po) ==
    IF po = TriggerMetadata THEN s.TriggerMetadata
    ELSE IF po = AuthParams THEN s.AuthParams
    ELSE IF po = ResolvedEnv THEN s.ResolvedEnv
    ELSE s.TriggerMetadata

RECURSIVE orderLoop(_, _, _)
orderLoop(s, params, k) ==
    IF k > Len(params.ParsingOrder) THEN [val |-> <<>>, exists |-> FALSE]
    ELSE LET po == params.ParsingOrder[k]
             m == sourceMap(s, po)
             key == sourceKey(s, po, params.Name)
             l == Lookup(m, key)
         IN
         IF l.ok /\ l.param # <<>> THEN [val |-> l.param, exists |-> TRUE]
         ELSE orderLoop(s, params, k + 1)

configParamValue(s, params) == orderLoop(s, params, 1)

-----------------------------------------------------------------------------
(* Field shapes and values *)

StringT == [kind |-> "string"]
NamedStringT == [kind |-> "namedString"]
IntT == [kind |-> "int"]
SliceT(e) == [kind |-> "slice", elem |-> e]
MapT(k, e) == [kind |-> "map", key |-> k, elem |-> e]

NilMap == [isnil |-> TRUE, kv |-> <<>>]

RECURSIVE Zero(_)
\* the zero value of a shape (reflect.New(t).Elem())
Zero(t) ==
    IF t.kind \in {"string", "namedString"} THEN <<>>
    ELSE IF t.kind = "int" THEN 0
    ELSE IF t.kind = "slice" THEN <<>>
    ELSE NilMap

\* reflect.MakeMap: a new, empty, non-nil map
makeMapKeepEntries(field) == [isnil |-> FALSE, kv |-> field.kv]

makeMap(field) == [isnil |-> FALSE, kv |-> <<>>]

SetMapIndex(m, k, v) ==
    [m EXCEPT !.kv = [x \in (DOMAIN m.kv) \cup {k} |-> IF x = k THEN v ELSE m.kv[x]]]

IsDigit(c) == c \in {"0", "1", "2", "3", "4", "5", "6", "7", "8", "9"}

DigitVal(c) ==
    CASE c = "0" -> 0 [] c = "1" -> 1 [] c = "2" -> 2 [] c = "3" -> 3
      [] c = "4" -> 4 [] c = "5" -> 5 [] c = "6" -> 6 [] c = "7" -> 7
      [] c = "8" -> 8 [] c = "9" -> 9

RECURSIVE DigitsVal(_)
DigitsVal(ds) ==
    IF ds = <<>> THEN 0
    ELSE 10 * DigitsVal(SubSeq(ds, 1, Len(ds) - 1)) + DigitVal(ds[Len(ds)])

\* json.Unmarshal of the text into an int: surrounding white space is
\* skipped, the rest must be an integer literal (no leading zero).
\* The literal null, which is not among the raw values, is left out.
jsonInt(text) ==
    LET t == TrimSpace(text)
        neg == t # <<>> /\ t[1] = "-"
        ds == IF neg THEN Tail(t) ELSE t
        ok == /\ ds # <<>>
              /\ \A k \in 1..Len(ds) : IsDigit(ds[k])
              /\ (Len(ds) > 1 => ds[1] # "0")
    IN [ok |-> ok,
        val |-> IF ok THEN (IF neg THEN 0 - DigitsVal(ds) ELSE DigitsVal(ds)) ELSE 0]

-----------------------------------------------------------------------------
(* setConfigValueHelper *)

RECURSIVE setConfigValueHelper(_, _, _, _)
RECURSIVE mapLoop(_, _, _, _)
RECURSIVE sliceLoop(_, _, _, _, _)

\* the loop over the clauses of a map value; m is the field so far
mapLoop(split, k, t, m) ==
    IF k > Len(split) THEN [err |-> NoError, value |-> m]
    ELSE
    LET s == TrimSpace(split[k])
        kv == Split(s, elemKeyValSeparator)
    IN
    IF Len(kv) # 2 THEN [err |-> [kind |-> "format", clause |-> s], value |-> m]
    ELSE
    LET key == TrimSpace(kv[1])
        val == TrimSpace(kv[2])
        rk == setConfigValueHelper(key, t.key, Zero(t.key), TRUE)
    IN
    IF IsErr(rk.err)
    THEN [err |-> [kind |-> "mapKey", key |-> key, cause |-> rk.err], value |-> m]
    ELSE
    LET rv == setConfigValueHelper(val, t.elem, Zero(t.elem), TRUE) IN
    IF IsErr(rv.err)
    THEN [err |-> [kind |-> "mapValue", key |-> key, val |-> val, cause |-> rv.err],
          value |-> m]
    ELSE mapLoop(split, k + 1, t, SetMapIndex(m, rk.value, rv.value))

\* the loop over the elements of a slice value; elemIfc is the one holder
\* allocated before the loop, cur is the field so far
sliceLoop(split, k, t, elemIfc, cur) ==
    IF k > Len(split) THEN [err |-> NoError, value |-> cur]
    ELSE
    LET s == TrimSpace(split[k])
        r == setConfigValueHelper(s, t.elem, elemIfc, TRUE)
    IN
    IF IsErr(r.err)
    THEN [err |-> [kind |-> "sliceElem", index |-> k - 1, cause |-> r.err],
          value |-> cur]
    ELSE sliceLoop(split, k + 1, t, r.value, Append(cur, r.value))

\* t: the field's shape, field: its current value, canInterface: whether the
\* field is exported or addressable through a fresh holder (an unexported
\* field is modelled for the int shape only, where no Set is attempted).
\* Returns the error and the field's value after the call.
setConfigValueHelper(valFromConfig, t, field, canInterface) ==
    IF t.kind = "string" THEN [err |-> NoError, value |-> valFromConfig]
    ELSE IF t.kind = "namedString" THEN [err |-> NoError, value |-> valFromConfig]
    ELSE IF t.kind = "map"
    THEN mapLoop(Split(valFromConfig, elemSeparator), 1, t, makeMap(field))
    ELSE IF t.kind = "slice"
    THEN sliceLoop(Split(valFromConfig, elemSeparator), 1, t, Zero(t.elem), field)
    ELSE IF canInterface THEN
        LET j == jsonInt(valFromConfig) IN
        IF j.ok THEN [err |-> NoError, value |-> j.val]
        ELSE [err |-> [kind |-> "unmarshal", type |-> t], value |-> field]
    ELSE [err |-> [kind |-> "noParser", type |-> t], value |-> field]

-----------------------------------------------------------------------------
(* setValue *)

acceptsNoValueOptionalOnly(params) == params.Optional

acceptsNoValueNegated(params) == params.Optional \/ ~IsDeprecated(params)

\* params.Optional || params.IsDeprecated()
acceptsNoValue(params) == params.Optional \/ IsDeprecated(params)

ErrDeprecated(params) ==
    [kind |-> "deprecated", name |-> params.Name, message |-> DeprecatedMessage(params)]

ErrMissing(params) ==
    [kind |-> "missing", name |-> params.Name, order |-> params.ParsingOrder]

\* f is the field (shape, exportedness, current value).  Returns the error,
\* the field's value after the call and the locals valFromConfig and exists
\* as they stand when the function returns.
setValueOptionalFirst(s, f, params) ==
    LET c == configParamValue(s, params) IN
    IF c.exists /\ IsDeprecated(params)
    THEN [err |-> ErrDeprecated(params), value |-> f.value,
          valFromConfig |-> c.val, exists |-> c.exists, resolved |-> c]
    ELSE IF ~c.exists /\ acceptsNoValue(params)
    THEN [err |-> NoError, value |-> f.value,
          valFromConfig |-> c.val, exists |-> FALSE, resolved |-> c]
    ELSE
    LET exists == c.exists \/ params.Default # <<>>
        valFromConfig == IF c.exists THEN c.val ELSE params.Default
    IN
    IF ~exists
    THEN [err |-> ErrMissing(params), value |-> f.value,
          valFromConfig |-> valFromConfig, exists |-> FALSE, resolved |-> c]
    ELSE
    LET r == setConfigValueHelper(valFromConfig, f.type, f.value, f.exported) IN
    [err |-> IF IsErr(r.err)
             THEN [kind |-> "unableToSet", name |-> params.Name,
                   value |-> valFromConfig, cause |-> r.err]
             ELSE NoError,
     value |-> r.value, valFromConfig |-> valFromConfig, exists |-> TRUE,
     resolved |-> c]

setValue(s, f, params) ==
    LET c == configParamValue(s, params) IN
    IF c.exists /\ IsDeprecated(params)
    THEN [err |-> ErrDeprecated(params), value |-> f.value,
          valFromConfig |-> c.val, exists |-> c.exists, resolved |-> c]
    ELSE
    LET exists == c.exists \/ params.Default # <<>>
        valFromConfig == IF c.exists THEN c.val ELSE params.Default
    IN
    IF ~exists /\ acceptsNoValue(params)
    THEN [err |-> NoError, value |-> f.value,
          valFromConfig |-> valFromConfig, exists |-> FALSE, resolved |-> c]
    ELSE IF ~exists /\ ~acceptsNoValue(params)
    THEN [err |-> ErrMissing(params), value |-> f.value,
          valFromConfig |-> valFromConfig, exists |-> FALSE, resolved |-> c]
    ELSE
    LET r == setConfigValueHelper(valFromConfig, f.type, f.value, f.exported) IN
    [err |-> IF IsErr(r.err)
             THEN [kind |-> "unableToSet", name |-> params.Name,
                   value |-> valFromConfig, cause |-> r.err]
             ELSE NoError,
     value |-> r.value, valFromConfig |-> valFromConfig, exists |-> TRUE,
     resolved |-> c]

-----------------------------------------------------------------------------
(* TypedConfig *)

\* kerrors.NewAggregate: nil for an empty list, else the errors in order
NewAggregate(errlist) ==
    IF errlist = <<>> THEN NoError ELSE [kind |-> "aggregate", errs |-> errlist]

NoLast == [ran |-> FALSE]

\* the check that the argument is a pointer
Enter ==
    /\ pc = "start"
    /\ IF isPtr
       THEN pc' = "loop" /\ ret' = ret
       ELSE pc' = "done" /\ ret' = [kind |-> "notPointer"]
    /\ UNCHANGED <<sc, isPtr, fields, i, errors, last>>

\* the loop as it would be if it returned at the first error
IterateStopAtFirstError ==
    /\ pc = "loop"
    /\ i <= Len(fields)
    /\ LET f == fields[i] IN
       IF f.tag = <<>>
       THEN UNCHANGED <<fields, errors, last>>
       ELSE
       LET p == paramsFromTag(f.tag, f.name) IN
       IF IsErr(p.err)
       THEN /\ errors' = Append(errors, p.err)
            /\ last' = [ran |-> TRUE, index |-> i, parsed |-> FALSE, err |-> p.err,
                        before |-> f.value]
            /\ UNCHANGED fields
       ELSE
       LET r == setValue(sc, f, p.params) IN
       /\ fields' = [fields EXCEPT ![i].value = r.value]
       /\ errors' = IF IsErr(r.err) THEN Append(errors, r.err) ELSE errors
       /\ last' = [ran |-> TRUE, index |-> i, parsed |-> TRUE, err |-> r.err,
                   before |-> f.value, params |-> p.params,
                   valFromConfig |-> r.valFromConfig, exists |-> r.exists,
                   resolved |-> r.resolved]
    /\ i' = IF Len(errors') > Len(errors) THEN Len(fields) + 1 ELSE i + 1
    /\ UNCHANGED <<sc, isPtr, ret, pc>>

\* one iteration of the loop over the fields
Iterate ==
    /\ pc = "loop"
    /\ i <= Len(fields)
    /\ LET f == fields[i] IN
       IF f.tag = <<>>
       THEN UNCHANGED <<fields, errors, last>>
       ELSE
       LET p == paramsFromTag(f.tag, f.name) IN
       IF IsErr(p.err)
       THEN /\ errors' = Append(errors, p.err)
            /\ last' = [ran |-> TRUE, index |-> i, parsed |-> FALSE, err |-> p.err,
                        before |-> f.value]
            /\ UNCHANGED fields
       ELSE
       LET r == setValue(sc, f, p.params) IN
       /\ fields' = [fields EXCEPT ![i].value = r.value]
       /\ errors' = IF IsErr(r.err) THEN Append(errors, r.err) ELSE errors
       /\ last' = [ran |-> TRUE, index |-> i, parsed |-> TRUE, err |-> r.err,
                   before |-> f.value, params |-> p.params,
                   valFromConfig |-> r.valFromConfig, exists |-> r.exists,
                   resolved |-> r.resolved]
    /\ i' = i + 1
    /\ UNCHANGED <<sc, isPtr, ret, pc>>

\* the loop has ended: return the aggregate
Return ==
    /\ pc = "loop"
    /\ i > Len(fields)
    /\ ret' = NewAggregate(errors)
    /\ pc' = "done"
    /\ UNCHANGED <<sc, isPtr, fields, i, errors, last>>

Next == Enter \/ Iterate \/ Return

-----------------------------------------------------------------------------
(* Inputs *)

RECURSIVE Join(_, _)
Join(parts, sep) ==
    IF parts = <<>> THEN <<>>
    ELSE IF Len(parts) = 1 THEN parts[1]
    ELSE parts[1] \o sep \o Join(Tail(parts), sep)

RECURSIVE SeqsOfLen(_, _)
SeqsOfLen(S, n) ==
    IF n = 0 THEN {<<>>}
    ELSE {Append(s, c) : s \in SeqsOfLen(S, n - 1), c \in S}

SeqsUpTo(S, n) == UNION {SeqsOfLen(S, k) : k \in 0..n}

\* every map[string]string with keys among keys and values among vals
PartialMaps(keys, vals) == UNION {[d -> vals] : d \in SUBSET keys}

ParamName == <<"p">>
GoName == <<"P">>

Unset == [kind |-> "unset"]

Field(tag, t, exported, value) ==
    [name |-> GoName, tag |-> tag, type |-> t, exported |-> exported, value |-> value]

Start ==
    /\ i = 1
    /\ errors = <<>>
    /\ last = NoLast
    /\ ret = Unset
    /\ pc = "start"

\* a call with a structure instead of a pointer to one
NotPointerCall ==
    /\ isPtr = FALSE
    /\ sc = [TriggerMetadata |-> <<>>, ResolvedEnv |-> <<>>, AuthParams |-> <<>>]
    /\ fields = <<>>

(* descriptors and bundles for one field *)

OrderTokens == {"triggerMetadata", "resolvedEnv", "authParams", "bogus"}

OptionalClauses == {<<>>, <<optionalTag>>}
DefaultClauses == {<<>>, <<defaultTag \o <<"=", "3">> >>}
DeprecatedClauses ==
    {<<>>, <<deprecatedTag>>, <<deprecatedTag \o <<"=", "m">> >>}

OrderClause(order) ==
    IF order = <<>> THEN <<>>
    ELSE <<parsingOrderTag \o <<"=">> \o
           Join([k \in 1..Len(order) |-> <<order[k]>>], <<";">>) >>

FieldTags ==
    {Join(<<nameTag \o <<"=">> \o ParamName>> \o OrderClause(order) \o opt \o def \o dep,
          <<",", " ">>) :
        order \in SeqsUpTo(OrderTokens, MaxOrderLen),
        opt \in OptionalClauses, def \in DefaultClauses, dep \in DeprecatedClauses}

FieldBundles ==
    {[TriggerMetadata |-> tm, ResolvedEnv |-> re, AuthParams |-> au] :
        tm \in PartialMaps({ParamName, ParamName \o <<"FromEnv">>}, {<<>>, <<"1">>}),
        re \in PartialMaps({<<"1">>}, {<<>>, <<"2">>})
               \cup {(<<>> :> <<"2">>), (<<>> :> <<"2">>) @@ (<<"1">> :> <<"2">>)},
        au \in PartialMaps({ParamName}, {<<"a">>})}

InitField ==
    /\ Start
    /\ \/ NotPointerCall
       \/ /\ isPtr = TRUE
          /\ sc \in FieldBundles
          /\ \E tag \in FieldTags : fields = <<Field(tag, IntT, TRUE, Zero(IntT))>>

SpecField == InitField /\ [][Next]_vars

(* raw values and field shapes for the conversion *)

RawChars == {"a", "1", "=", ",", " "}

RawValues == SeqsUpTo(RawChars, MaxLen)

RequiredTag ==
    Join(<<nameTag \o <<"=">> \o ParamName, parsingOrderTag \o <<"=">> \o TriggerMetadata>>,
         <<",", " ">>)

\* shape, exportedness and value before the call
ConvFields ==
    <<Field(RequiredTag, StringT, TRUE, <<"z">>),
     Field(RequiredTag, NamedStringT, TRUE, <<>>),
     Field(RequiredTag, IntT, TRUE, 7),
     Field(RequiredTag, IntT, FALSE, 7),
     Field(RequiredTag, SliceT(IntT), TRUE, <<>>),
     Field(RequiredTag, SliceT(IntT), TRUE, <<7>>),
     Field(RequiredTag, SliceT(SliceT(IntT)), TRUE, <<>>),
     Field(RequiredTag, MapT(StringT, IntT), TRUE, NilMap),
     Field(RequiredTag, MapT(StringT, IntT), TRUE, [isnil |-> FALSE, kv |-> (<<"z">> :> 7)]),
     Field(RequiredTag, MapT(StringT, StringT), TRUE,
           [isnil |-> FALSE, kv |-> (<<"z">> :> <<"z">>)])>>

InitConv ==
    /\ Start
    /\ \/ NotPointerCall
       \/ /\ isPtr = TRUE
          /\ \E raw \in RawValues :
                sc = [TriggerMetadata |-> (ParamName :> raw), ResolvedEnv |-> <<>>,
                      AuthParams |-> <<>>]
          /\ \E k \in 1..Len(ConvFields) : fields = <<ConvFields[k]>>

SpecConv == InitConv /\ [][Next]_vars

(* structures of several fields *)

OtherName == <<"q">>

TagOf(name, rest) ==
    Join(<<nameTag \o <<"=">> \o name, parsingOrderTag \o <<"=">> \o TriggerMetadata>> \o rest,
         <<",", " ">>)

StructTags ==
    {<<>>,
     <<"bogus", "=", "1">>,
     TagOf(ParamName, <<>>),
     TagOf(ParamName, <<deprecatedTag>>),
     TagOf(OtherName, <<>>),
     TagOf(OtherName, <<optionalTag \o <<"=", "true">> >>),
     TagOf(OtherName, <<optionalTag \o <<"=", "false">> >>)}

StructBundles ==
    {[TriggerMetadata |-> tm, ResolvedEnv |-> <<>>, AuthParams |-> <<>>] :
        tm \in PartialMaps({ParamName, OtherName}, {<<"1">>, <<"a">>})}

InitStruct ==
    /\ Start
    /\ \/ NotPointerCall
       \/ /\ isPtr = TRUE
          /\ sc \in StructBundles
          /\ \E n \in 0..MaxFields :
                \E tags \in [1..n -> StructTags], ts \in [1..n -> {StringT, IntT}] :
                    fields = [k \in 1..n |-> Field(tags[k], ts[k], TRUE, Zero(ts[k]))]

SpecStruct == InitStruct /\ [][Next]_vars

-----------------------------------------------------------------------------
(* Properties: what they are stated in terms of *)

\* the loop iteration that ran last parsed its tag and called setValue
Ran == last.ran /\ last.parsed
P == last.params
After == fields[last.index].value
Unassigned == After = last.before

EqPositions(s) == {k \in 1..Len(s) : s[k] = "="}

\* an entry of the parsing order, as the description of the lookup has it
EntryMap(po) ==
    IF po = AuthParams THEN sc.AuthParams
    ELSE IF po = ResolvedEnv THEN sc.ResolvedEnv
    ELSE sc.TriggerMetadata

EntryKey(name, po) ==
    IF po = ResolvedEnv
    THEN IF name \o <<"FromEnv">> \in DOMAIN sc.TriggerMetadata
         THEN sc.TriggerMetadata[name \o <<"FromEnv">>] ELSE <<>>
    ELSE name

EntryResolves(name, po) ==
    /\ EntryKey(name, po) \in DOMAIN EntryMap(po)
    /\ EntryMap(po)[EntryKey(name, po)] # <<>>

Resolving(params) ==
    {k \in 1..Len(params.ParsingOrder) : EntryResolves(params.Name, params.ParsingOrder[k])}

AnyResolves(params) == Resolving(params) # {}

FirstResolving(params) ==
    CHOOSE k \in Resolving(params) : \A j \in Resolving(params) : k <= j

SuppliedValue(params) ==
    LET po == params.ParsingOrder[FirstResolving(params)] IN
    EntryMap(po)[EntryKey(params.Name, po)]

\* the integers the raw values of the one-field bundles stand for
IntLit == (<<"1">> :> 1) @@ (<<"2">> :> 2) @@ (<<"3">> :> 3)

\* the field of an int structure member after a successful or failed conversion
HoldsConverted(raw) ==
    IF raw \in DOMAIN IntLit
    THEN ~IsErr(last.err) /\ After = IntLit[raw]
    ELSE last.err.kind = "unableToSet" /\ last.err.value = raw /\ Unassigned

-----------------------------------------------------------------------------
(* C1: a deprecated parameter for which some parsing-order entry resolves    *)
(* makes setValue return `parameter "<name>" is deprecated`, followed by     *)
(* `: <marker>` unless the marker is the bare word `deprecated`, whatever    *)
(* Optional and Default are, and the field is not assigned.                  *)
C1_DeprecatedValueIsError ==
    (Ran /\ P.Deprecated # <<>> /\ AnyResolves(P)) =>
        /\ last.err.kind = "deprecated"
        /\ last.err.name = P.Name
        /\ last.err.message =
              (IF P.Deprecated = <<"deprecated">> THEN <<>>
               ELSE <<":", " ">> \o P.Deprecated)
        /\ Unassigned

C1_Witness ==
    /\ Ran /\ pc = "done"
    /\ P.Deprecated = <<"m">> /\ P.Optional /\ P.Default # <<>>
    /\ AnyResolves(P)
    /\ last.err.kind = "deprecated"
    /\ last.err.message = <<":", " ", "m">>
    /\ ret.kind = "aggregate"

(* C2 as stated: a deprecated parameter for which no parsing-order entry     *)
(* resolves makes setValue return no error and leave the field unassigned.   *)
C2_Original ==
    (Ran /\ P.Deprecated # <<>> /\ ~AnyResolves(P)) =>
        (~IsErr(last.err) /\ Unassigned)

(* C2, amended: a deprecated parameter with an empty Default for which no    *)
(* parsing-order entry resolves makes setValue return no error and leave     *)
(* the field unassigned; with a non-empty Default the default is converted   *)
(* and assigned instead.                                                     *)
C2_DeprecatedMissingIsSilent ==
    (Ran /\ P.Deprecated # <<>> /\ ~AnyResolves(P)) =>
        IF P.Default = <<>>
        THEN ~IsErr(last.err) /\ Unassigned
        ELSE last.valFromConfig = P.Default /\ HoldsConverted(P.Default)

C2_Witness ==
    /\ Ran /\ pc = "done"
    /\ P.Deprecated # <<>> /\ ~P.Optional /\ P.Default = <<>>
    /\ P.ParsingOrder # <<>>
    /\ ~AnyResolves(P)
    /\ ret = NoError
    /\ After = 0

(* C3: configParamValue returns the value of the first entry of the parsing  *)
(* order that resolves and reports "not found" exactly when none resolves;   *)
(* triggerMetadata and authParams are looked up under Name, resolvedEnv      *)
(* under the key stored at TriggerMetadata[Name+"FromEnv"], and an empty     *)
(* value does not resolve.                                                   *)
C3_FirstResolvingEntryWins ==
    Ran =>
        /\ last.resolved.exists = AnyResolves(P)
        /\ AnyResolves(P) => last.resolved.val = SuppliedValue(P)
        /\ ~AnyResolves(P) => last.resolved.val = <<>>

C3_Witness ==
    /\ Ran /\ pc = "done"
    /\ P.ParsingOrder = <<ResolvedEnv, TriggerMetadata>>
    /\ EntryResolves(P.Name, ResolvedEnv) /\ EntryResolves(P.Name, TriggerMetadata)
    /\ last.resolved.val = <<"2">>
    /\ sc.TriggerMetadata[P.Name] = <<"1">>
    /\ P.Deprecated = <<>>
    /\ After = 2

(* C6: with no entry resolving, no default, and the field neither optional   *)
(* nor deprecated, setValue fails with the missing-parameter error naming    *)
(* Name and the whole parsing order; with an entry resolving and the field   *)
(* not deprecated, no missing-parameter error is returned.                   *)
C6_MissingRequired ==
    /\ (Ran /\ ~AnyResolves(P) /\ P.Default = <<>> /\ ~P.Optional /\ P.Deprecated = <<>>) =>
          /\ last.err.kind = "missing"
          /\ last.err.name = P.Name
          /\ last.err.order = P.ParsingOrder
          /\ Unassigned
    /\ (Ran /\ AnyResolves(P) /\ P.Deprecated = <<>>) => last.err.kind # "missing"

C6_Witness ==
    /\ Ran /\ pc = "done"
    /\ P.ParsingOrder = <<TriggerMetadata, AuthParams>>
    /\ ~AnyResolves(P) /\ P.Default = <<>> /\ ~P.Optional /\ P.Deprecated = <<>>
    /\ last.err.kind = "missing"
    /\ ret.kind = "aggregate" /\ Len(ret.errs) = 1

(* C7: with no entry resolving and a non-empty Default, the field ends up    *)
(* holding the default, converted as a supplied value is; with an entry      *)
(* resolving, the value setValue works with is the supplied one and never    *)
(* the default, and it is what the field of a non-deprecated parameter       *)
(* ends up holding.                                                          *)
C7_DefaultWhenUnresolved ==
    /\ (Ran /\ ~AnyResolves(P) /\ P.Default # <<>>) =>
          /\ last.valFromConfig = P.Default
          /\ HoldsConverted(P.Default)
    /\ (Ran /\ AnyResolves(P)) => last.valFromConfig = SuppliedValue(P)
    /\ (Ran /\ AnyResolves(P) /\ P.Deprecated = <<>>) => HoldsConverted(SuppliedValue(P))

C7_Witness ==
    /\ Ran /\ pc = "done"
    /\ P.Optional /\ P.Default = <<"3">> /\ P.Deprecated = <<>>
    /\ P.ParsingOrder # <<>> /\ ~AnyResolves(P)
    /\ After = 3
    /\ ret = NoError

(* parsing orders with tokens outside the three known ones *)
Unrecognized(po) == po \notin {TriggerMetadata, ResolvedEnv, AuthParams}

AsTriggerMetadata(params) ==
    [params EXCEPT !.ParsingOrder =
        [k \in 1..Len(@) |-> IF Unrecognized(@[k]) THEN TriggerMetadata ELSE @[k]]]

OnlyUnrecognized(params) ==
    /\ params.ParsingOrder # <<>>
    /\ \A k \in 1..Len(params.ParsingOrder) : Unrecognized(params.ParsingOrder[k])

FieldBefore == [fields[last.index] EXCEPT !.value = last.before]

(* C10 as stated: a parsing order made only of unrecognized tokens yields    *)
(* the same outcome (error, field, resolution) as the order                  *)
(* [triggerMetadata].                                                        *)
C10_Original ==
    (Ran /\ OnlyUnrecognized(P)) =>
        LET o == setValue(sc, FieldBefore, [P EXCEPT !.ParsingOrder = <<TriggerMetadata>>]) IN
        /\ last.resolved = o.resolved
        /\ After = o.value
        /\ last.err = o.err

(* C10, amended: an unrecognized parsing-order token is rejected neither by  *)
(* paramsFromTag nor by configParamValue and is resolved as a                *)
(* triggerMetadata entry; an order made only of unrecognized tokens yields   *)
(* the same resolution, field value and kind of error as the order           *)
(* [triggerMetadata], the missing-parameter error alone differing in that it *)
(* lists the descriptor's own tokens.                                        *)
C10_UnrecognizedIsTriggerMetadata ==
    /\ last.ran => last.parsed
    /\ Ran => last.resolved = configParamValue(sc, AsTriggerMetadata(P))
    /\ (Ran /\ OnlyUnrecognized(P)) =>
          LET o == setValue(sc, FieldBefore, [P EXCEPT !.ParsingOrder = <<TriggerMetadata>>]) IN
          /\ last.resolved = o.resolved
          /\ After = o.value
          /\ last.err.kind = o.err.kind
          /\ last.err.kind = "missing" => last.err.order = P.ParsingOrder

C10_Witness ==
    /\ Ran /\ pc = "done"
    /\ P.ParsingOrder = << <<"bogus">> >>
    /\ P.Deprecated = <<>>
    /\ last.resolved = [val |-> <<"1">>, exists |-> TRUE]
    /\ After = 1
    /\ ret = NoError

(* C5: TypedConfig processes every tagged field in declaration order and     *)
(* does not stop at a failure; it returns nil exactly when no field          *)
(* produced an error, and otherwise an aggregate of one error per failing    *)
(* field, in field order.                                                    *)
FieldErr(f) ==
    IF f.tag = <<>> THEN NoError
    ELSE LET p == paramsFromTag(f.tag, f.name) IN
         IF IsErr(p.err) THEN p.err
         ELSE setValue(sc, [f EXCEPT !.value = Zero(f.type)], p.params).err

Failing(n) == {k \in 1..n : IsErr(FieldErr(fields[k]))}

RECURSIVE ErrsUpTo(_)
ErrsUpTo(n) ==
    IF n = 0 THEN <<>>
    ELSE IF n \in Failing(n) THEN Append(ErrsUpTo(n - 1), FieldErr(fields[n]))
    ELSE ErrsUpTo(n - 1)

C5_AllFieldErrorsCollected ==
    /\ (pc = "loop") => errors = ErrsUpTo(i - 1)
    /\ (pc = "done" /\ isPtr) =>
          /\ i = Len(fields) + 1
          /\ (ret.kind = "nil") <=> (Failing(Len(fields)) = {})
          /\ Failing(Len(fields)) # {} =>
                /\ ret.kind = "aggregate"
                /\ Len(ret.errs) = Cardinality(Failing(Len(fields)))
                /\ ret.errs = ErrsUpTo(Len(fields))

C5_Witness ==
    /\ pc = "done" /\ isPtr
    /\ Len(fields) = 2
    /\ Failing(2) = {1, 2}
    /\ ret.kind = "aggregate"
    /\ Len(ret.errs) = 2
    /\ ret.errs[1].kind = "unknownTag"
    /\ ret.errs[2].kind = "missing"

(* C4: the field is exactly as it was before the call whenever setValue      *)
(* returns an error and whenever it accepts a "no value" outcome; it         *)
(* changes only on a successful conversion.                                  *)
C4_FieldUntouchedOnError ==
    (Ran /\ (IsErr(last.err) \/ ~last.exists)) => Unassigned

(* the raw value handed to the conversion, cut at ',' and trimmed *)
FieldType == fields[last.index].type
Converting(kind) == Ran /\ last.exists /\ FieldType.kind = kind
Elems == LET split == Split(last.valFromConfig, ",") IN
         [k \in 1..Len(split) |-> TrimSpace(split[k])]

\* the conversion of one element into a fresh holder of shape t
Conv(t, text) == setConfigValueHelper(text, t, Zero(t), TRUE)

Min(S) == CHOOSE k \in S : \A j \in S : k <= j
Max(S) == CHOOSE k \in S : \A j \in S : k >= j

(* C9: a raw string e1,...,en converted into a sequence field yields         *)
(* exactly [conv(e1), ..., conv(en)], the trimmed elements converted to the  *)
(* element shape, in order and nothing else; a failure on element i aborts   *)
(* with an error carrying index i.                                           *)
C9_SliceHoldsExactlyTheElements ==
    Converting("slice") =>
        LET bad == {k \in 1..Len(Elems) : IsErr(Conv(FieldType.elem, Elems[k]).err)} IN
        IF bad = {}
        THEN /\ ~IsErr(last.err)
             /\ After = [k \in 1..Len(Elems) |-> Conv(FieldType.elem, Elems[k]).value]
        ELSE /\ last.err.kind = "unableToSet"
             /\ last.err.cause.kind = "sliceElem"
             /\ last.err.cause.index = Min(bad) - 1

(* clauses of a map value *)
Malformed(k) == Cardinality(EqPositions(Elems[k])) # 1
ClauseKey(k) == TrimSpace(SubSeq(Elems[k], 1, Min(EqPositions(Elems[k])) - 1))
ClauseVal(k) ==
    TrimSpace(SubSeq(Elems[k], Min(EqPositions(Elems[k])) + 1, Len(Elems[k])))
Unconvertible(k) ==
    ~Malformed(k) /\ IsErr(Conv(FieldType.elem, ClauseVal(k)).err)

\* key -> converted value of the last clause with that key
HoldsExactlyTheClauses ==
    LET keys == {ClauseKey(k) : k \in 1..Len(Elems)} IN
    /\ ~After.isnil
    /\ DOMAIN After.kv = keys
    /\ \A d \in keys :
          After.kv[d] =
             Conv(FieldType.elem,
                  ClauseVal(Max({k \in 1..Len(Elems) : ClauseKey(k) = d}))).value

C9_NestedHolderReused ==
    /\ Converting("slice") /\ pc = "done"
    /\ FieldType.elem.kind = "slice"
    /\ last.valFromConfig = <<"1", ",", "1">>
    /\ After = << <<1>>, <<1, 1>> >>

\* a sequence field that failed on its second element keeps the first
C4_SliceHalfFilled ==
    /\ Converting("slice") /\ pc = "done"
    /\ last.valFromConfig = <<"1", ",", "a">>
    /\ last.before = <<>>
    /\ After = <<1>>
    /\ last.err.cause.kind = "sliceElem" /\ last.err.cause.index = 1

====
